---- MODULE Spec2Model ----
(***************************************************************************)
(* Task execution lifecycle of WindowsAgentGUI (src/main.py): the UI       *)
(* thread's handlers (send_command, start_task, stop_task,                 *)
(* process_message_queue, save_api_key), the worker thread started by      *)
(* send_command (run_agent_task_async / execute_agent_task_async on a      *)
(* private asyncio loop) and the pool thread that runs the adapter call    *)
(* (capture_agent_output).                                                 *)
(*                                                                         *)
(* Granularity.  Handlers of the UI thread run to completion on the Tk     *)
(* main loop, so each is one action.  The worker is cut at every point     *)
(* where it reads or writes a field the UI thread or another worker also   *)
(* touches (is_task_running, current_task, the asyncio Task stop_task      *)
(* cancels, the executor's work item).  asyncio.Task and Future are        *)
(* modelled by the fields of CPython's implementation that cancel() and    *)
(* the task step read and write (_state, _must_cancel, _fut_waiter).  The  *)
(* pool thread redirects both output streams in the step that enters       *)
(* agent.invoke and restores both in the step that leaves                  *)
(* capture_agent_output.                                                   *)
(*                                                                         *)
(* Queue.  Every put of a worker is recorded, in order, in enqueued[t].    *)
(* The variable message_queue holds the entries process_message_queue has  *)
(* still to act on for the run state, the update_buttons sentinels; chat   *)
(* lines only flow on into the chat display.                               *)
(*                                                                         *)
(* Projections.  The task lifecycle (Spec, SubmitSpec, LiveSpec) reads     *)
(* neither the chat, the files nor the text the adapter prints, and leaves *)
(* those variables alone; they are modelled by specifications of their own *)
(* (DataSpec: chat_history, the four JSON files and the rules; QuerySpec: *)
(* the string built for the adapter; QueueSpec: the queue with its chat    *)
(* lines under the 100 ms poll; TeeSpec: TeeOutput during one adapter      *)
(* call, with the threads that write to it; FormatSpec:                    *)
(* format_agent_log).  In those, file and log text is a sequence of        *)
(* characters, and json.dump, json.load, strip, split and the substring    *)
(* tests are computed on the characters.                                   *)
(***************************************************************************)
EXTENDS Integers, Sequences, FiniteSets, TLC

\* ------------------------------------------------------------------ bounds
MaxTasks == 2      \* worker threads send_command may start in one run
MaxHistory == 2    \* entries send_command may append to task_history

Tasks == 1..MaxTasks
None == 0
NoEvent == <<"step">>

\* ------------------------------------------------------------------ text
\* Entry text is a sequence of characters, so that str.strip() is computed.
Placeholder == <<"M", "e", "s", "s", "a", "g", "e", " ", "L", "u", "m", "a">>

\* The white space of the texts modelled
Whitespace == {" ", "\n"}

RECURSIVE LStrip(_)
LStrip(s) == IF s # <<>> /\ Head(s) \in Whitespace THEN LStrip(Tail(s)) ELSE s

RECURSIVE RStrip(_)
RStrip(s) ==
    IF s # <<>> /\ s[Len(s)] \in Whitespace THEN RStrip(SubSeq(s, 1, Len(s) - 1)) ELSE s

Strip(s) == RStrip(LStrip(s))

\* What the user may have in command_entry when a handler reads it.
EntryTexts == { <<" ">>, <<" ", "x", " ">>, Placeholder, Placeholder \o <<" ">> }

ApiKeyInputs == {"", "AIza"}

\* ------------------------------------------------------------------ messages
UPDATE_BUTTONS  == "update_buttons"
MSG_INIT        == "Initializing task..."
MSG_OBJECTIVE   == "Objective"
MSG_RULES       == "Applying rules to guide task execution..."
MSG_ANALYZING   == "Analyzing request and planning actions..."
MSG_EXECUTING   == "Executing agent task..."
MSG_COMPLETED   == "Task completed successfully!"
MSG_FINAL       == "Final Result"
MSG_EXEC_ERROR  == "Error executing task"
MSG_CANCELLED   == "Task was cancelled by user."
MSG_TASK_ERROR  == "Error in task execution"
MSG_STOPPED     == "Task stopped successfully."

\* A queue entry is the tuple (sender, message, msg_type) of the source.
Msg(sender, message, type) == [sender |-> sender, message |-> message, type |-> type]

Sentinel        == Msg(UPDATE_BUTTONS, "", "")
AgentMsg(text)  == Msg("Agent", text, "agent")
SystemMsg(text) == Msg("System", text, "system")
ErrorAsSystemMsg(text) == Msg("System", text, "system")
ErrorMsg(text)  == Msg("System", text, "error")


\* ------------------------------------------------------------------ JSON files
\* A string is a sequence of characters; a file's text is one too.  json.dump
\* and json.load are computed on the text: strings are quoted and escaped,
\* items are separated by commas and line breaks (indent=2).
QUOTE     == "\""
BACKSLASH == "\\"

RECURSIVE Escape(_)
Escape(s) ==
    IF s = <<>> THEN <<>>
    ELSE (IF Head(s) \in {QUOTE, BACKSLASH} THEN <<BACKSLASH, Head(s)>>
          ELSE IF Head(s) = "\n" THEN <<BACKSLASH, "n">>
          ELSE <<Head(s)>>) \o Escape(Tail(s))

DumpStr(s) == <<QUOTE>> \o Escape(s) \o <<QUOTE>>

RECURSIVE JoinItems(_)
JoinItems(items) ==
    IF items = <<>> THEN <<>>
    ELSE IF Len(items) = 1 THEN items[1]
    ELSE items[1] \o <<",", "\n">> \o JoinItems(Tail(items))

DumpArray(items) ==
    IF items = <<>> THEN <<"[", "]">>
    ELSE <<"[", "\n">> \o JoinItems(items) \o <<"\n", "]">>

\* pairs: a sequence of <<key, text of the value>>
DumpObject(pairs) ==
    <<"{", "\n">>
        \o JoinItems([i \in 1..Len(pairs) |-> DumpStr(pairs[i][1]) \o <<":", " ">> \o pairs[i][2]])
        \o <<"\n", "}">>

\* json.dump of a list of strings (task history, rules)
DumpStrings(l) == DumpArray([i \in 1..Len(l) |-> DumpStr(l[i])])

KeepEscapes(s) == s

\* The text of a string literal decoded
RECURSIVE Unescape(_)
Unescape(s) ==
    IF s = <<>> THEN <<>>
    ELSE IF Head(s) = BACKSLASH /\ Len(s) >= 2
         THEN <<IF s[2] = "n" THEN "\n" ELSE s[2]>> \o Unescape(Tail(Tail(s)))
         ELSE <<Head(s)>> \o Unescape(Tail(s))

\* The number of backslashes right before position i
RECURSIVE Slashes(_, _)
Slashes(text, i) ==
    IF i > 1 /\ text[i - 1] = BACKSLASH THEN 1 + Slashes(text, i - 1) ELSE 0

\* The structural characters of text[from..to], white space skipped
Gap(text, from, to) ==
    LET g == SelectSeq(SubSeq(text, from, to), LAMBDA c : c \notin {" ", "\n"})
    IN  [n \in 1..Len(g) |-> [kind |-> "punct", val |-> <<g[n]>>]]

\* The tokens from the k-th string on, qs being the positions of the
\* quotation marks that delimit strings
RECURSIVE Scan(_, _, _)
Scan(text, qs, k) ==
    LET from == IF k = 1 THEN 1 ELSE qs[2 * k - 2] + 1 IN
    IF 2 * k > Len(qs) THEN Gap(text, from, Len(text))
    ELSE Gap(text, from, qs[2 * k - 1] - 1)
         \o <<[kind |-> "str",
               val |-> Unescape(SubSeq(text, qs[2 * k - 1] + 1, qs[2 * k] - 1))]>>
         \o Scan(text, qs, k + 1)

\* The scanner of json.load: structural characters and decoded strings, white
\* space between them skipped.  A quotation mark delimits a string unless an
\* odd number of backslashes precedes it.
Tokens(text) ==
    Scan(text,
         SelectSeq([i \in 1..Len(text) |-> i],
                   LAMBDA i : text[i] = QUOTE /\ Slashes(text, i) % 2 = 0),
         1)

IsStr(tok) == tok.kind = "str"

\* The strings of a text, in order
Strings(text) ==
    LET strs == SelectSeq(Tokens(text), IsStr)
    IN  [i \in 1..Len(strs) |-> strs[i].val]

\* json.load of a list of strings
LoadStrings(text) == Strings(text)

\* A chat entry, as add_message builds it (lines 880-885).  The message is a
\* string; the timestamp, the sender and the type are kept whole and written
\* to the file as strings of one piece.
TIMESTAMP == "HH:MM:SS"

Entry(sender, message, type) ==
    [timestamp |-> TIMESTAMP, sender |-> sender, message |-> message, type |-> type]

DumpEntry(e) ==
    DumpObject(<< <<<<"timestamp">>, DumpStr(<<e.timestamp>>)>>,
                  <<<<"sender">>, DumpStr(<<e.sender>>)>>,
                  <<<<"message">>, DumpStr(e.message)>>,
                  <<<<"type">>, DumpStr(<<e.type>>)>> >>)

\* json.dump of chat_history
DumpChat(h) == DumpArray([i \in 1..Len(h) |-> DumpEntry(h[i])])

\* The value of key in the i-th object of a list of objects with four keys
\* each, strs being the strings of the text.
FieldOf(strs, i, key) ==
    LET base == 8 * (i - 1)
        k == CHOOSE j \in {1, 3, 5, 7} : strs[base + j] = <<key>>
    IN  strs[base + k + 1]

\* json.load of chat_history.json
LoadChat(text) ==
    LET strs == Strings(text)
    IN  [i \in 1..(Len(strs) \div 8) |->
            [timestamp |-> FieldOf(strs, i, "timestamp")[1],
             sender    |-> FieldOf(strs, i, "sender")[1],
             message   |-> FieldOf(strs, i, "message"),
             type      |-> FieldOf(strs, i, "type")[1]]]

\* self.settings: the rules and the theme
THEME == "dark"

Settings(rs) == [rules |-> rs, theme |-> THEME]

\* json.dump of self.settings
DumpSettings(st) ==
    DumpObject(<< <<<<"rules">>, DumpStrings(st.rules)>>,
                  <<<<"theme">>, DumpStr(<<st.theme>>)>> >>)

\* json.load of agent_settings.json: the strings between the brackets are the
\* rules, the string after the last key is the theme.
LoadSettings(text) ==
    LET toks == Tokens(text)
        open == CHOOSE i \in 1..Len(toks) : toks[i] = [kind |-> "punct", val |-> <<"[">>]
        shut == CHOOSE i \in (open + 1)..Len(toks) :
                    toks[i] = [kind |-> "punct", val |-> <<"]">>]
        inner == SelectSeq(SubSeq(toks, open + 1, shut - 1), IsStr)
        rest == SelectSeq(SubSeq(toks, shut + 1, Len(toks)), IsStr)
    IN  [rules |-> [i \in 1..Len(inner) |-> inner[i].val],
         theme |-> rest[Len(rest)].val[1]]

VARIABLES
    DEPENDENCIES_AVAILABLE, \* module global set by the import block
    current_api_key,        \* "" or the key
    agent,                  \* "None" or "Agent"
    rules,                  \* settings["rules"]
    is_task_running,
    current_task,           \* None or the task whose asyncio.Task the slot holds
    task_thread,            \* None or the task of the last thread started
    message_queue,
    task_history,
    start_button,           \* "normal" | "disabled"
    stop_button,
    pc,                     \* per task: where its worker thread is
    task_state,             \* per task: asyncio.Task._state
    must_cancel,            \* per task: asyncio.Task._must_cancel
    fut,                    \* per task: state of the future the task awaits
    call,                   \* per task: state of the executor's work item
    exc,                    \* per task: exception in flight in the coroutine
    content,                \* per task: agent_result.content is non-empty
    enqueued,               \* history: per task, the entries it has put
    invoked,                \* history: per task, times agent.invoke was entered
    stops,                  \* history: per task, when stop_task acted in its lifetime
    cancels,                \* history: per task, when Task.cancel() was called on it
    event,                  \* history: the submission that led to this state, if recorded
    chat_history,           \* entries add_message has appended
    chat_file,              \* text of chat_history.json (<<>>: absent or unreadable)
    task_file,              \* text of task_history.json
    rules_file,             \* text of rules.json
    settings_file,          \* text of agent_settings.json
    dialog,                 \* messagebox shown by the last handler: "none" | "error"
    closed,                 \* root.destroy() has run
    query,                  \* command given to execute_agent_task_async
    enhanced_query,         \* string built from it for the adapter
    put_log,                \* history: the entries put on the queue, in order
    sys_stdout,             \* sys.stdout: Original or the tee of a task's adapter call
    sys_stderr,             \* sys.stderr, likewise
    tee_phase,              \* capture_agent_output: "idle" | "invoking" | "returned" | "raised"
    tee_buffer,             \* per stream: TeeOutput.buffer
    tee_pc,                 \* per writing thread: where it is in TeeOutput.write
    tee_local,              \* per writing thread: the values it has read there
    tee_written,            \* history: per stream, all text passed to write
    tee_log,                \* history: what the tees have put, in order
    line,                   \* argument of format_agent_log
    formatted               \* its result

workerVars == <<pc, task_state, must_cancel, fut, call, exc, content>>
histVars   == <<enqueued, invoked, stops, cancels>>
envVars    == <<DEPENDENCIES_AVAILABLE, current_api_key, agent, rules>>
uiVars     == <<is_task_running, current_task, task_thread, message_queue,
                task_history, start_button, stop_button>>
chatVars   == <<chat_history, chat_file>>
fileVars   == <<task_file, rules_file, settings_file, dialog, closed>>
queryVars  == <<query, enhanced_query>>
sysVars    == <<sys_stdout, sys_stderr>>
teeVars    == <<sysVars, tee_phase, tee_buffer, tee_pc, tee_local, tee_written, tee_log>>
fmtVars    == <<line, formatted>>
auxVars    == <<fileVars, queryVars, put_log, teeVars, fmtVars>>
vars       == <<envVars, uiVars, workerVars, histVars, event, chatVars, auxVars>>


\* ------------------------------------------------------------------ helpers
\* settings["rules"] once load_rules or the settings dialog has set it: stripped,
\* non-blank strings.
RuleSets == { <<>>, << <<"A">> >> }

\* asyncio.Task.done() and .cancelled()
Done(t)      == task_state[t] # "PENDING"
Cancelled(t) == task_state[t] = "CANCELLED"

\* Where task t is relative to its adapter call: its worker has not reached
\* line 999 yet, or agent.invoke is executing.
BeforeCall(t) == pc[t] \in {"thread_started", "task_created", "running_set"}
InFlight(t)   == call[t] = "running"

Alive(t) == pc[t] \notin {"idle", "finished"}

Launched == {t \in Tasks : pc[t] # "idle"}

IsSentinel(m) == m.sender = UPDATE_BUTTONS

\* sys.stdout and sys.stderr, each replaced by a TeeOutput (lines 838-844)
Streams == {"stdout", "stderr"}

\* The threads that write to sys.stdout and sys.stderr while they are
\* redirected: the executor thread running agent.invoke, and the UI thread,
\* whose handlers print to sys.stdout (lines 727, 1212)
Writers == {"adapter", "ui"}

\* The locals of a thread that is not inside write
NoLocal == [stream |-> "stdout", text |-> <<>>, rest |-> <<>>]

\* What sys.stdout and sys.stderr hold: the streams __init__ kept in
\* original_stdout and original_stderr (lines 82-83), or the TeeOutput that the
\* adapter call of task t made for the stream (lines 838-839)
Original == 0
Tee(t) == t

\* The queue entries that become chat lines
IsChatLine(m) == ~IsSentinel(m)

\* add_message, lines 880-885: the entry appended for queue entry m, whose
\* message is one piece of text
EntryOf(m) == Entry(m.sender, <<m.message>>, m.type)

\* message_queue.put of the entries ms, in order, by the worker of task t
Put(t, ms) ==
    /\ message_queue' = message_queue \o SelectSeq(ms, IsSentinel)
    /\ enqueued' = [enqueued EXCEPT ![t] = @ \o ms]

\* ------------------------------------------------------------------ Init
\* The state __init__ leaves (lines 67-97) with no chat or task history file
\* yet: the rules are those of rules.json or, without the dependencies, those
\* of agent_settings.json.
\* load_api_key_from_env and load_rules run only with the dependencies
\* imported.
Init ==
    /\ DEPENDENCIES_AVAILABLE \in BOOLEAN
    /\ current_api_key \in (IF DEPENDENCIES_AVAILABLE THEN ApiKeyInputs ELSE {""})
    /\ agent = "None"
    /\ rules \in RuleSets
    /\ is_task_running = FALSE
    /\ current_task = None
    /\ task_thread = None
    /\ message_queue = <<>>
    /\ task_history = <<>>
    /\ start_button = "normal"
    /\ stop_button = "disabled"
    /\ pc = [t \in Tasks |-> "idle"]
    /\ task_state = [t \in Tasks |-> "none"]
    /\ must_cancel = [t \in Tasks |-> FALSE]
    /\ fut = [t \in Tasks |-> "none"]
    /\ call = [t \in Tasks |-> "none"]
    /\ exc = [t \in Tasks |-> "none"]
    /\ content = [t \in Tasks |-> FALSE]
    /\ enqueued = [t \in Tasks |-> <<>>]
    /\ invoked = [t \in Tasks |-> 0]
    /\ stops = [t \in Tasks |-> {}]
    /\ cancels = [t \in Tasks |-> {}]
    /\ event = NoEvent
    /\ chat_history = <<>>
    /\ chat_file = <<>>
    /\ task_file = <<>>
    /\ rules_file = (IF DEPENDENCIES_AVAILABLE /\ rules # <<>> THEN DumpStrings(rules) ELSE <<>>)
    /\ settings_file = (IF DEPENDENCIES_AVAILABLE THEN <<>> ELSE DumpSettings(Settings(rules)))
    /\ dialog = "none"
    /\ closed = FALSE
    /\ query = <<>>
    /\ enhanced_query = <<>>
    /\ put_log = <<>>
    /\ sys_stdout = Original
    /\ sys_stderr = Original
    /\ tee_phase = "idle"
    /\ tee_buffer = [s \in Streams |-> <<>>]
    /\ tee_written = [s \in Streams |-> <<>>]
    /\ tee_pc = [w \in Writers |-> "idle"]
    /\ tee_local = [w \in Writers |-> NoLocal]
    /\ tee_log = <<>>
    /\ line = <<>>
    /\ formatted = <<>>

\* ------------------------------------------------------------------ UI thread
\* update_button_states, lines 1061-1068
update_button_states(running) ==
    /\ start_button' = IF running THEN "disabled" ELSE "normal"
    /\ stop_button' = IF running THEN "normal" ELSE "disabled"

\* threading.Thread(target=run_agent_task_async).start(), lines 924-926
StartThread ==
    LET t == Cardinality(Launched) + 1 IN
    /\ t \in Tasks
    /\ task_thread' = t
    /\ pc' = [pc EXCEPT ![t] = "thread_started"]
    /\ UNCHANGED <<task_state, must_cancel, fut, call, exc, content>>

\* send_command without the credential check of lines 899-903.
send_command_without_key_check(text) ==
    LET command == Strip(text) IN
    IF command = <<>> \/ command = Placeholder THEN
        UNCHANGED <<uiVars, workerVars>>
    ELSE IF ~DEPENDENCIES_AVAILABLE THEN
        UNCHANGED <<uiVars, workerVars>>
    ELSE
        /\ Len(task_history) < MaxHistory
        /\ task_history' = Append(task_history, command)
        /\ IF ~is_task_running
              THEN StartThread
              ELSE UNCHANGED <<task_thread, workerVars>>
        /\ UNCHANGED <<is_task_running, current_task, message_queue,
                       start_button, stop_button>>

\* send_command, lines 890-926, with command_entry holding text.
send_command(text) ==
    LET command == Strip(text) IN
    IF command = <<>> \/ command = Placeholder THEN
        UNCHANGED <<uiVars, workerVars>>
    ELSE IF current_api_key = "" THEN
        UNCHANGED <<uiVars, workerVars>>
    ELSE IF ~DEPENDENCIES_AVAILABLE THEN
        UNCHANGED <<uiVars, workerVars>>
    ELSE
        /\ Len(task_history) < MaxHistory
        /\ task_history' = Append(task_history, command)
        /\ IF ~is_task_running
              THEN StartThread
              ELSE UNCHANGED <<task_thread, workerVars>>
        /\ UNCHANGED <<is_task_running, current_task, message_queue,
                       start_button, stop_button>>

\* initialize_agent, lines 745-763: Agent(...) is built, or raises and is caught.
initialize_agent(ok) ==
    agent' = IF DEPENDENCIES_AVAILABLE /\ ok THEN "Agent" ELSE agent

\* start_task, lines 1019-1046, with command_entry holding text; ok: whether
\* initialize_agent builds the Agent.
start_task(text, ok) ==
    IF Strip(text) = <<>> \/ text = Placeholder THEN
        UNCHANGED <<agent, uiVars, workerVars>>
    ELSE IF current_api_key = "" THEN
        UNCHANGED <<agent, uiVars, workerVars>>
    ELSE
        /\ IF agent = "None" /\ DEPENDENCIES_AVAILABLE
              THEN initialize_agent(ok)
              ELSE agent' = agent
        /\ IF agent' = "None"
              THEN UNCHANGED <<uiVars, workerVars>>
              ELSE send_command(text)

\* The Return key in command_entry (line 286).
SendCommand(text) ==
    /\ send_command(text)
    /\ event' = NoEvent
    /\ UNCHANGED <<chatVars, auxVars>>
    /\ UNCHANGED <<envVars, histVars>>

\* The Start button (line 184); a disabled button does not call its command.
StartTask(text, ok) ==
    /\ start_button = "normal"
    /\ start_task(text, ok)
    /\ event' = NoEvent
    /\ UNCHANGED <<chatVars, auxVars>>
    /\ UNCHANGED <<DEPENDENCIES_AVAILABLE, current_api_key, rules, histVars>>

\* The same two handlers, with the command submitted recorded in event.
SendCommandRecorded(text) ==
    /\ send_command(text)
    /\ event' = <<"submit", Strip(text)>>
    /\ UNCHANGED <<chatVars, auxVars>>
    /\ UNCHANGED <<envVars, histVars>>

StartTaskRecorded(text, ok) ==
    /\ start_button = "normal"
    /\ start_task(text, ok)
    /\ event' = <<"submit", Strip(text)>>
    /\ UNCHANGED <<chatVars, auxVars>>
    /\ UNCHANGED <<DEPENDENCIES_AVAILABLE, current_api_key, rules, histVars>>

\* A cancellation kept in a flag of the runner instead of the Task: every task,
\* started or not, sees it.
RunnerCancel(t) ==
    /\ fut' = [fut EXCEPT ![t] = IF @ = "PENDING" THEN "CANCELLED" ELSE @]
    /\ must_cancel' = [u \in Tasks |-> IF u = t THEN fut[t] # "PENDING" ELSE TRUE]

\* Task.cancel() of CPython, as stop_task calls it on task t (line 1055): a
\* pending awaited future is cancelled, otherwise _must_cancel is set.
TaskCancel(t) ==
    IF fut[t] = "PENDING"
       THEN /\ fut' = [fut EXCEPT ![t] = "CANCELLED"]
            /\ UNCHANGED must_cancel
       ELSE /\ must_cancel' = [must_cancel EXCEPT ![t] = TRUE]
            /\ UNCHANGED fut

\* stop_task that only requests the cancellation and leaves lines 1058-1059 to
\* the worker's finally clause.
StopTaskLeavesReset ==
    /\ stop_button = "normal"
    /\ event' = NoEvent
    /\ UNCHANGED <<chatVars, auxVars>>
    /\ UNCHANGED <<envVars, enqueued, invoked>>
    /\ IF is_task_running /\ task_thread # None THEN
           /\ IF current_task # None /\ ~Done(current_task)
                 THEN /\ TaskCancel(current_task)
                      /\ cancels' = [cancels EXCEPT ![current_task] = @ \cup
                             {IF BeforeCall(current_task) THEN "before_call" ELSE "later"}]
                 ELSE UNCHANGED <<fut, must_cancel, cancels>>
           /\ stops' = [t \in Tasks |->
                  IF Alive(t)
                     THEN stops[t] \cup {IF InFlight(t) THEN "in_flight" ELSE "other"}
                     ELSE stops[t]]
           /\ UNCHANGED <<uiVars, pc, task_state, call, exc, content>>
       ELSE
           UNCHANGED <<uiVars, workerVars, stops, cancels>>

\* The Stop button (line 203), which calls its command only when enabled:
\* stop_task, lines 1048-1059.
StopTask ==
    /\ stop_button = "normal"
    /\ event' = NoEvent
    /\ UNCHANGED <<chatVars, auxVars>>
    /\ UNCHANGED <<envVars, enqueued, invoked>>
    /\ IF is_task_running /\ task_thread # None THEN
           /\ IF current_task # None /\ ~Done(current_task)
                 THEN /\ TaskCancel(current_task)
                      /\ cancels' = [cancels EXCEPT ![current_task] = @ \cup
                             {IF BeforeCall(current_task) THEN "before_call" ELSE "later"}]
                 ELSE UNCHANGED <<fut, must_cancel, cancels>>
           /\ stops' = [t \in Tasks |->
                  IF Alive(t)
                     THEN stops[t] \cup {IF InFlight(t) THEN "in_flight" ELSE "other"}
                     ELSE stops[t]]
           /\ is_task_running' = FALSE
           /\ update_button_states(FALSE)
           /\ UNCHANGED <<current_task, task_thread, message_queue, task_history,
                          pc, task_state, call, exc, content>>
       ELSE
           UNCHANGED <<uiVars, workerVars, stops, cancels>>

ProcessMessageQueueRendersAll ==
    /\ event' = NoEvent
    /\ UNCHANGED auxVars
    /\ message_queue' = <<>>
    /\ LET lines == message_queue
           entries == [i \in 1..Len(lines) |-> EntryOf(lines[i])]
       IN  /\ chat_history' = chat_history \o entries
           /\ \E saved \in 0..Len(lines) :
                  chat_file' = IF saved = 0 THEN chat_file
                               ELSE DumpChat(chat_history \o SubSeq(entries, 1, saved))
    /\ IF \E i \in 1..Len(message_queue) : IsSentinel(message_queue[i])
          THEN update_button_states(is_task_running)
          ELSE UNCHANGED <<start_button, stop_button>>
    /\ UNCHANGED <<envVars, is_task_running, current_task, task_thread,
                   task_history, workerVars, histVars>>

\* process_message_queue, lines 1136-1153: the 100 ms timer drains the queue;
\* each sentinel calls update_button_states, every other entry goes to
\* add_message (lines 860-888), which appends it to chat_history and rewrites
\* chat_history.json; a failed write is caught by save_chat_history.
ProcessMessageQueue ==
    /\ event' = NoEvent
    /\ UNCHANGED auxVars
    /\ message_queue' = <<>>
    /\ LET lines == SelectSeq(message_queue, IsChatLine)
           entries == [i \in 1..Len(lines) |-> EntryOf(lines[i])]
       IN  /\ chat_history' = chat_history \o entries
           /\ \E saved \in 0..Len(lines) :
                  chat_file' = IF saved = 0 THEN chat_file
                               ELSE DumpChat(chat_history \o SubSeq(entries, 1, saved))
    /\ IF \E i \in 1..Len(message_queue) : IsSentinel(message_queue[i])
          THEN update_button_states(is_task_running)
          ELSE UNCHANGED <<start_button, stop_button>>
    /\ UNCHANGED <<envVars, is_task_running, current_task, task_thread,
                   task_history, workerVars, histVars>>

\* save_api_key, lines 616-637, with key typed in the dialog.  saved: whether
\* save_api_key_to_env succeeds (it raises otherwise, before the key is kept);
\* ok: whether initialize_agent builds the Agent.
SaveApiKey(key, saved, ok) ==
    /\ event' = NoEvent
    /\ UNCHANGED <<chatVars, auxVars>>
    /\ UNCHANGED <<DEPENDENCIES_AVAILABLE, rules, uiVars, workerVars, histVars>>
    /\ IF key # "" /\ ~saved
          THEN UNCHANGED <<current_api_key, agent>>
          ELSE /\ current_api_key' = IF key # "" THEN key ELSE current_api_key
               /\ IF DEPENDENCIES_AVAILABLE /\ current_api_key' # ""
                     THEN initialize_agent(ok)
                     ELSE agent' = agent

\* ------------------------------------------------------------------ worker thread
\* run_agent_task_async, lines 932-938: the loop is made and the coroutine is
\* wrapped in a Task, stored in the current_task slot.  Its first step is only
\* scheduled.
CreateTask(t) ==
    /\ pc[t] = "thread_started"
    /\ pc' = [pc EXCEPT ![t] = "task_created"]
    /\ task_state' = [task_state EXCEPT ![t] = "PENDING"]
    /\ current_task' = t
    /\ event' = NoEvent
    /\ UNCHANGED <<chatVars, auxVars>>
    /\ UNCHANGED <<envVars, is_task_running, task_thread, message_queue, task_history,
                   start_button, stop_button, must_cancel, fut, call, exc, content,
                   histVars>>

\* run_until_complete has raised CancelledError or another exception, or has
\* returned: lines 940-946.
RunnerExit(t, ms) ==
    /\ Put(t, ms \o (IF task_state'[t] = "CANCELLED"
                        THEN <<SystemMsg(MSG_CANCELLED)>>
                        ELSE IF exc[t] = "error"
                                THEN <<ErrorMsg(MSG_TASK_ERROR)>>
                                ELSE <<>>))
    /\ current_task' = None
    /\ pc' = [pc EXCEPT ![t] = "confirm"]

\* First step of the Task (run_until_complete, line 939).  A Task cancelled
\* before its first step has CancelledError thrown into the unstarted
\* coroutine: no line of execute_agent_task_async runs.  Otherwise lines
\* 955-956.
BeginTask(t) ==
    /\ pc[t] = "task_created"
    /\ event' = NoEvent
    /\ UNCHANGED <<chatVars, auxVars>>
    /\ UNCHANGED <<envVars, task_thread, task_history, start_button,
                   stop_button, fut, call, exc, content, invoked, stops, cancels>>
    /\ IF must_cancel[t] THEN
           /\ must_cancel' = [must_cancel EXCEPT ![t] = FALSE]
           /\ task_state' = [task_state EXCEPT ![t] = "CANCELLED"]
           /\ RunnerExit(t, <<>>)
           /\ UNCHANGED is_task_running
       ELSE
           /\ is_task_running' = TRUE
           /\ Put(t, <<Sentinel>>)
           /\ pc' = [pc EXCEPT ![t] = "running_set"]
           /\ UNCHANGED <<must_cancel, task_state, current_task>>

\* Lines 965-972: the non-blank rules and the notice about them.
valid_rules == SelectSeq([i \in 1..Len(rules) |-> Strip(rules[i])], LAMBDA r : r # <<>>)

RulesNotice == IF valid_rules # <<>> THEN <<AgentMsg(MSG_RULES)>> ELSE <<>>

\* Lines 958-999 up to the await: the progress notices, the two cancellation
\* checks (Task.cancelled() of the task that is running them),
\* executor.submit of capture_agent_output, and the task step that registers
\* the awaited future and, with _must_cancel set, cancels it.
SubmitCall(t) ==
    /\ pc[t] = "running_set"
    /\ event' = NoEvent
    /\ UNCHANGED <<chatVars, auxVars>>
    /\ UNCHANGED <<envVars, task_thread, task_history, start_button, stop_button,
                   content, invoked, stops, cancels>>
    /\ IF Cancelled(t) THEN
           \* line 983 raises outside the try of line 988: no finally clause runs
           /\ UNCHANGED <<is_task_running, task_state, must_cancel, fut, call, exc>>
           /\ RunnerExit(t, <<AgentMsg(MSG_INIT), AgentMsg(MSG_OBJECTIVE)>> \o RulesNotice)
       ELSE
           /\ Put(t, <<AgentMsg(MSG_INIT), AgentMsg(MSG_OBJECTIVE)>> \o RulesNotice
                     \o <<AgentMsg(MSG_ANALYZING), AgentMsg(MSG_EXECUTING)>>)
           /\ call' = [call EXCEPT ![t] = "queued"]
           /\ fut' = [fut EXCEPT ![t] = IF must_cancel[t] THEN "CANCELLED" ELSE "PENDING"]
           /\ must_cancel' = [must_cancel EXCEPT ![t] = FALSE]
           /\ pc' = [pc EXCEPT ![t] = "awaiting"]
           /\ UNCHANGED <<is_task_running, current_task, task_state, exc>>

\* Lines 843-844: both streams are set to the tees of the call of task t.
Redirect(t) ==
    /\ sys_stdout' = Tee(t)
    /\ sys_stderr' = Tee(t)

\* Lines 857-858.
Restore ==
    /\ sys_stdout' = Original
    /\ sys_stderr' = Original

\* The pool thread takes the work item (set_running_or_notify_cancel) and
\* enters capture_agent_output, lines 765-847.  With self.agent None, line 847
\* raises AttributeError and no adapter is entered: the streams are redirected
\* and restored at once.
AdapterStart(t) ==
    /\ call[t] = "queued"
    /\ event' = NoEvent
    /\ UNCHANGED <<chatVars, fileVars, queryVars, put_log, fmtVars>>
    /\ UNCHANGED <<tee_phase, tee_buffer, tee_pc, tee_local, tee_written, tee_log>>
    /\ IF agent = "None"
          THEN /\ call' = [call EXCEPT ![t] = "raised"]
               /\ fut' = [fut EXCEPT ![t] = IF @ = "PENDING" THEN "FINISHED" ELSE @]
               /\ Restore
               /\ UNCHANGED invoked
          ELSE /\ call' = [call EXCEPT ![t] = "running"]
               /\ invoked' = [invoked EXCEPT ![t] = @ + 1]
               /\ Redirect(t)
               /\ UNCHANGED fut
    /\ UNCHANGED <<envVars, uiVars, pc, task_state, must_cancel, exc, content,
                   enqueued, stops, cancels>>

\* agent.invoke returns (with or without content) or raises, lines 847-858:
\* the streams are restored; the result is handed to the loop, which sets the
\* awaited future unless it was cancelled.
AdapterFinish(t, outcome, hasContent) ==
    /\ call[t] = "running"
    /\ event' = NoEvent
    /\ UNCHANGED <<chatVars, fileVars, queryVars, put_log, fmtVars>>
    /\ UNCHANGED <<tee_phase, tee_buffer, tee_pc, tee_local, tee_written, tee_log>>
    /\ Restore
    /\ call' = [call EXCEPT ![t] = outcome]
    /\ content' = [content EXCEPT ![t] = (outcome = "returned") /\ hasContent]
    /\ fut' = [fut EXCEPT ![t] = IF @ = "PENDING" THEN "FINISHED" ELSE @]
    /\ UNCHANGED <<envVars, uiVars, pc, task_state, must_cancel, exc, histVars>>

\* Lines 1001-1008, the call having returned.
ReportResult(t) ==
    IF Cancelled(t)
       THEN /\ exc' = [exc EXCEPT ![t] = "cancel"]
            /\ UNCHANGED <<message_queue, enqueued>>
       ELSE /\ Put(t, <<AgentMsg(MSG_COMPLETED)>>
                      \o (IF content[t] THEN <<AgentMsg(MSG_FINAL)>> ELSE <<>>))
            /\ UNCHANGED exc

\* The task step that resumes the coroutine at the await of line 999, up to
\* the finally clause of line 1015.
\*  - The awaited future was cancelled, or _must_cancel is set: a cancelled
\*    future first cancels the work item, which succeeds only if the pool
\*    thread has not taken it; CancelledError is thrown at the await; leaving
\*    the with block of line 991 waits for the pool thread
\*    (executor.shutdown(wait=True)), so the step ends only once the call is
\*    over; lines 1010-1012 re-raise.
\*  - Otherwise the call's result is returned and lines 1001-1008 follow, or
\*    its exception is raised and lines 1013-1014 follow.
Wakeup(t) ==
    /\ pc[t] = "awaiting"
    /\ fut[t] \in {"CANCELLED", "FINISHED"}
    /\ event' = NoEvent
    /\ UNCHANGED <<chatVars, auxVars>>
    /\ must_cancel' = [must_cancel EXCEPT ![t] = FALSE]
    /\ pc' = [pc EXCEPT ![t] = "finally"]
    /\ IF fut[t] = "CANCELLED" \/ must_cancel[t] THEN
           /\ call[t] # "running"
           /\ call' = [call EXCEPT ![t] = IF @ = "queued" THEN "cancelled" ELSE @]
           /\ exc' = [exc EXCEPT ![t] = "cancel"]
           /\ UNCHANGED <<message_queue, enqueued>>
       ELSE IF call[t] = "returned" THEN
           /\ ReportResult(t)
           /\ UNCHANGED call
       ELSE
           /\ Put(t, <<ErrorMsg(MSG_EXEC_ERROR)>>)
           /\ UNCHANGED <<call, exc>>
    /\ UNCHANGED <<envVars, is_task_running, current_task, task_thread, task_history,
                   start_button, stop_button, task_state, fut, content, invoked,
                   stops, cancels>>

\* The finally clause without line 1016.
ClearRunningSkipped(t) ==
    /\ pc[t] = "finally"
    /\ event' = NoEvent
    /\ UNCHANGED <<chatVars, auxVars>>
    /\ pc' = [pc EXCEPT ![t] = "task_end"]
    /\ UNCHANGED <<envVars, uiVars, task_state, must_cancel, fut, call,
                   exc, content, histVars>>

\* Line 1016.
ClearRunning(t) ==
    /\ pc[t] = "finally"
    /\ event' = NoEvent
    /\ UNCHANGED <<chatVars, auxVars>>
    /\ pc' = [pc EXCEPT ![t] = "task_end"]
    /\ is_task_running' = FALSE
    /\ UNCHANGED <<envVars, current_task, task_thread, message_queue, task_history,
                   start_button, stop_button, task_state, must_cancel, fut, call,
                   exc, content, histVars>>

\* Line 1017 and the end of the coroutine: the Task becomes cancelled if
\* CancelledError leaves the coroutine or _must_cancel is set as it returns,
\* and finished otherwise; then lines 940-946.
EndTask(t) ==
    /\ pc[t] = "task_end"
    /\ event' = NoEvent
    /\ UNCHANGED <<chatVars, auxVars>>
    /\ task_state' = [task_state EXCEPT ![t] =
                         IF exc[t] = "cancel" \/ must_cancel[t]
                            THEN "CANCELLED" ELSE "FINISHED"]
    /\ must_cancel' = [must_cancel EXCEPT ![t] = FALSE]
    /\ RunnerExit(t, <<Sentinel>>)
    /\ UNCHANGED <<envVars, is_task_running, task_thread, task_history,
                   start_button, stop_button, fut, call, exc, content, invoked,
                   stops, cancels>>

\* Lines 948-949.
ConfirmStopped(t) ==
    /\ pc[t] = "confirm"
    /\ event' = NoEvent
    /\ UNCHANGED <<chatVars, auxVars>>
    /\ pc' = [pc EXCEPT ![t] = "finished"]
    /\ IF ~is_task_running
          THEN Put(t, <<SystemMsg(MSG_STOPPED)>>)
          ELSE UNCHANGED <<message_queue, enqueued>>
    /\ UNCHANGED <<envVars, is_task_running, current_task, task_thread, task_history,
                   start_button, stop_button, task_state, must_cancel, fut, call,
                   exc, content, invoked, stops, cancels>>

\* ------------------------------------------------------------------ specification
Background ==
    \/ StopTask
    \/ ProcessMessageQueue
    \/ \E key \in ApiKeyInputs, saved \in BOOLEAN, ok \in BOOLEAN : SaveApiKey(key, saved, ok)
    \/ \E t \in Tasks : CreateTask(t)
    \/ \E t \in Tasks : BeginTask(t)
    \/ \E t \in Tasks : SubmitCall(t)
    \/ \E t \in Tasks : AdapterStart(t)
    \/ \E t \in Tasks, outcome \in {"returned", "raised"}, hasContent \in BOOLEAN :
           AdapterFinish(t, outcome, hasContent)
    \/ \E t \in Tasks : Wakeup(t)
    \/ \E t \in Tasks : ClearRunning(t)
    \/ \E t \in Tasks : EndTask(t)
    \/ \E t \in Tasks : ConfirmStopped(t)

Next ==
    \/ \E text \in EntryTexts : SendCommand(text)
    \/ \E text \in EntryTexts, ok \in BOOLEAN : StartTask(text, ok)
    \/ Background

Spec == Init /\ [][Next]_vars

\* The program started without rules: rules only add the notice of line 972 to
\* what a worker enqueues.
InitNoRules == Init /\ rules = <<>>

\* The same handlers with every submission recorded in event.

NextSubmit ==
    \/ \E text \in EntryTexts : SendCommandRecorded(text)
    \/ \E text \in EntryTexts, ok \in BOOLEAN : StartTaskRecorded(text, ok)
    \/ Background

SubmitSpec == InitNoRules /\ [][NextSubmit]_vars

\* ------------------------------------------------------------------ claims
\* What task t has put on the queue.
Count(t, text) ==
    Cardinality({i \in 1..Len(enqueued[t]) : enqueued[t][i].message = text})

Outcomes(t) ==
    Count(t, MSG_COMPLETED) + Count(t, MSG_CANCELLED)
        + Count(t, MSG_EXEC_ERROR) + Count(t, MSG_TASK_ERROR)

Submission(text) ==
    SendCommand(text) \/ \E ok \in BOOLEAN : StartTask(text, ok)

\* C1: a submission (Return key or Start button) made while a task is Running
\* launches no worker and leaves task_history unchanged.
C1_RunningSubmissionRejected ==
    [][\A text \in EntryTexts :
          (is_task_running /\ Submission(text))
              => (task_history' = task_history /\ pc' = pc)]_vars

\* C2: in every reachable state at most one adapter call is executing.
C2_AtMostOneAdapterCall ==
    Cardinality({t \in Tasks : InFlight(t)}) <= 1

\* C3: a non-empty, non-placeholder command submitted with a credential (and
\* the agent library imported) while Idle is appended to task_history exactly
\* once and launches exactly one worker, and for that task the running flag
\* goes from false to true exactly once.
C3_Accepts(text) ==
    /\ Strip(text) \notin {<<>>, Placeholder}
    /\ current_api_key # ""
    /\ DEPENDENCIES_AVAILABLE
    /\ ~is_task_running

C3_IdleSubmissionStartsOnce ==
    [][/\ \A text \in EntryTexts :
             (C3_Accepts(text) /\ SendCommand(text))
                 => /\ task_history' = Append(task_history, Strip(text))
                    /\ Cardinality(Launched') = Cardinality(Launched) + 1
       /\ \A t \in Tasks :
             (pc[t] = "task_created" /\ pc'[t] # "task_created")
                 => (~is_task_running /\ is_task_running')]_vars

\* The same program under a fair scheduler: a worker thread that can take its
\* next step eventually takes it.
Fairness ==
    \A t \in Tasks :
        /\ WF_vars(Wakeup(t))
        /\ WF_vars(ClearRunning(t))
        /\ WF_vars(EndTask(t))
        /\ WF_vars(ConfirmStopped(t))

LiveSpec == InitNoRules /\ [][Next]_vars /\ Fairness

\* C4: a submission (a step that records its command in event) of an empty or
\* placeholder command, or without a credential, or with the agent library
\* missing, leaves task_history unchanged, launches no worker and leaves the
\* running flag unchanged.
C4_Rejects(command) ==
    \/ command \in {<<>>, Placeholder}
    \/ current_api_key = ""
    \/ ~DEPENDENCIES_AVAILABLE

C4_RejectedSubmissionNoEffect ==
    [][(event' # NoEvent /\ C4_Rejects(event'[2]))
          => /\ task_history' = task_history
             /\ pc' = pc
             /\ task_thread' = task_thread
             /\ is_task_running' = is_task_running]_vars

\* A command was submitted without a credential, and nothing was recorded or
\* launched.
C4_Witness ==
    /\ event = <<"submit", <<"x">>>>
    /\ current_api_key = ""
    /\ DEPENDENCIES_AVAILABLE
    /\ task_history = <<>>
    /\ Launched = {}

\* C5: stop_task called while Running leaves, in the same step of the UI
\* thread, the running flag false, Start enabled and Stop disabled, and moves
\* no worker: it waits for none, whether or not the adapter call has returned.
C5_StopShowsIdleAtOnce ==
    [][(is_task_running /\ task_thread # None /\ StopTask)
          => /\ ~is_task_running'
             /\ start_button' = "normal"
             /\ stop_button' = "disabled"
             /\ pc' = pc
             /\ call' = call]_vars

\* stop_task has run with the adapter call in flight and the display is Idle
\* while the call is still executing.
C5_Witness ==
    /\ \E t \in Tasks : InFlight(t) /\ "in_flight" \in stops[t]
    /\ ~is_task_running
    /\ start_button = "normal"
    /\ stop_button = "disabled"

\* C6: a task whose cancellation was requested before its worker reached the
\* adapter call never has the adapter invoked, and reports the cancellation
\* outcome.
C6_CancelBeforeCallSkipsAdapter ==
    \A t \in Tasks :
        "before_call" \in cancels[t]
            => /\ invoked[t] = 0
               /\ pc[t] = "finished" => Count(t, MSG_CANCELLED) = 1

\* C7: for a task whose adapter call was in flight when stop_task was called,
\* no completion or final-result message is ever enqueued; a system-kind
\* cancellation notice is enqueued once the call has returned, and not while it
\* is executing.
C7_StoppedInFlightReportsCancellation ==
    \A t \in Tasks :
        "in_flight" \in stops[t]
            => /\ Count(t, MSG_COMPLETED) = 0
               /\ Count(t, MSG_FINAL) = 0
               /\ Count(t, MSG_CANCELLED) > 0 => ~InFlight(t)
               /\ pc[t] = "finished"
                     => \E i \in 1..Len(enqueued[t]) :
                            enqueued[t][i] = SystemMsg(MSG_CANCELLED)

\* C8: every launched task enqueues exactly one of the completed, cancelled
\* and error messages: never more than one, and one once it has ended.
C8_ExactlyOneOutcome ==
    \A t \in Tasks :
        /\ Outcomes(t) <= 1
        /\ pc[t] = "finished" => Outcomes(t) = 1

\* C9: under a fair worker, a task waiting on an adapter call that has
\* returned or raised eventually has the running flag set to false by its worker, then
\* current_task set to None, and ends with an outcome message and the closing
\* update_buttons sentinel enqueued.
C9_CallOver(t) == pc[t] = "awaiting" /\ call[t] \in {"returned", "raised"}

C9_Ended(t) ==
    /\ pc[t] = "finished"
    /\ Outcomes(t) >= 1
    /\ Cardinality({i \in 1..Len(enqueued[t]) : enqueued[t][i] = Sentinel}) = 2

C9_WorkerEventuallyCleansUp ==
    /\ \A t \in Tasks :
          /\ C9_CallOver(t) ~> (pc[t] = "task_end" /\ ~is_task_running)
          /\ C9_CallOver(t) ~> (pc[t] = "confirm" /\ current_task = None)
          /\ C9_CallOver(t) ~> C9_Ended(t)
    /\ [][\A t \in Tasks :
             /\ (pc[t] = "finally" /\ pc'[t] # "finally") => ~is_task_running'
             /\ (pc[t] = "task_end" /\ pc'[t] # "task_end") => current_task' = None]_vars

\* A task whose call returned while stop_task had been called has ended.
C9_Witness ==
    \E t \in Tasks :
        /\ call[t] = "returned"
        /\ "in_flight" \in stops[t]
        /\ C9_Ended(t)

\* C10: a task whose adapter call raised and that no stop_task touched enqueues
\* exactly one error-kind message and no other outcome, invokes the adapter no
\* second time, and leaves the running flag false when no other task is alive.
C10_ErrorKind(t) ==
    Cardinality({i \in 1..Len(enqueued[t]) : enqueued[t][i].type = "error"})

C10_RaiseReportedOnce ==
    \A t \in Tasks :
        (call[t] = "raised" /\ stops[t] = {} /\ pc[t] \in {"task_end", "confirm", "finished"})
            => /\ C10_ErrorKind(t) = 1
               /\ Count(t, MSG_EXEC_ERROR) = 1
               /\ Outcomes(t) = 1
               /\ invoked[t] <= 1
               /\ (\A u \in Tasks \ {t} : ~Alive(u)) => ~is_task_running

\* The adapter was invoked, raised, and the task ended without any stop_task.
C10_Witness ==
    \E t \in Tasks :
        /\ call[t] = "raised"
        /\ invoked[t] = 1
        /\ stops[t] = {}
        /\ pc[t] = "finished"
        /\ ~is_task_running

\* ------------------------------------------------------------------ chat, files and rules
MaxChat == 2       \* entries the handlers of DataSpec may append to chat_history

lifeVars == <<DEPENDENCIES_AVAILABLE, current_api_key, agent, current_task, task_thread,
              message_queue, start_button, stop_button, workerVars, histVars, event>>

\* The ways a write to a file may end
WriteKinds == {"ok", "failed"}

\* What a file holds after open(name, 'w') and json.dump of text: the text,
\* or, open having raised, what it held before.
WriteResult(old, text, kind) == IF kind = "ok" THEN text ELSE old

add_message_unsaved(sender, message, type, kind) ==
    /\ chat_history' = Append(chat_history, Entry(sender, message, type))
    /\ chat_file' = chat_file

\* add_message, lines 860-888, its write ending as kind says: the entry is
\* appended and chat_history.json rewritten with the whole history;
\* save_chat_history catches a failed write (lines 1206-1212).
add_message(sender, message, type, kind) ==
    /\ chat_history' = Append(chat_history, Entry(sender, message, type))
    /\ chat_file' = WriteResult(chat_file, DumpChat(chat_history'), kind)

\* What the handlers tell the user
ChatInputs == { <<"System", <<"API key saved successfully.">>, "system">>,
                <<"System", <<"Failed to initialize agent: ", QUOTE, "k", QUOTE>>, "error">> }

\* A handler calls add_message (for instance save_api_key, line 626, or
\* initialize_agent, line 763).
AddMessage(sender, message, type, kind) ==
    /\ ~closed
    /\ Len(chat_history) < MaxChat
    /\ add_message(sender, message, type, kind)
    /\ dialog' = "none"
    /\ UNCHANGED <<lifeVars, rules, is_task_running, task_history, task_file, rules_file,
                   settings_file, closed, queryVars, put_log, teeVars, fmtVars>>

\* send_command, lines 894-919, seen from the chat and the task history: the
\* command is shown as a user message and appended to task_history, which
\* only on_closing writes to its file.
RecordCommand(text, kind) ==
    LET command == Strip(text) IN
    /\ ~closed
    /\ command # <<>> /\ command # Placeholder
    /\ current_api_key # "" /\ DEPENDENCIES_AVAILABLE
    /\ Len(chat_history) < MaxChat
    /\ Len(task_history) < MaxHistory
    /\ add_message("User", command, "user", kind)
    /\ task_history' = Append(task_history, command)
    /\ dialog' = "none"
    /\ UNCHANGED <<lifeVars, rules, is_task_running, task_file, rules_file,
                   settings_file, closed, queryVars, put_log, teeVars, fmtVars>>

\* Lines 663-668: the entry fields stripped, blank ones and repetitions
\* skipped.
RECURSIVE CleanRules(_, _)
CleanRules(entries, acc) ==
    IF entries = <<>> THEN acc
    ELSE LET rule == Strip(Head(entries)) IN
         CleanRules(Tail(entries),
                    IF rule # <<>> /\ \A i \in 1..Len(acc) : acc[i] # rule
                       THEN Append(acc, rule) ELSE acc)

\* load_rules, lines 698-717
load_rules(text) ==
    IF text = <<>> THEN <<>>
    ELSE LET loaded == LoadStrings(text) IN
         SelectSeq([i \in 1..Len(loaded) |-> Strip(loaded[i])], LAMBDA r : r # <<>>)

\* What the user may have in the rule entry fields of the settings window
RuleEntries == { <<>>, << <<"A">> >>, << <<" ", "B">>, <<" ">>, <<"A">> >>,
                 << <<"A">>, <<"A", " ">> >> }

\* str(i)
RECURSIVE Digits(_)
Digits(i) ==
    LET d == <<"0", "1", "2", "3", "4", "5", "6", "7", "8", "9">>[(i % 10) + 1]
    IN  IF i < 10 THEN <<d>> ELSE Append(Digits(i \div 10), d)

\* Line 676
RulesSaved(n) == <<"Saved ">> \o Digits(n) \o <<" rules successfully.">>

\* save_rules_from_settings_ui, lines 660-679.  _save_rules_to_file re-raises
\* a failed write (line 728), which lines 678-679 show in a dialog.
SaveRulesFromSettingsUI(entries, kind, chatKind) ==
    LET new == CleanRules(entries, <<>>) IN
    /\ ~closed
    /\ Len(chat_history) < MaxChat
    /\ rules_file' = WriteResult(rules_file, DumpStrings(new), kind)
    /\ IF kind = "ok"
          THEN /\ rules' = new
               /\ add_message("System", RulesSaved(Len(new)), "system", chatKind)
               /\ dialog' = "none"
          ELSE /\ dialog' = "error"
               /\ UNCHANGED <<rules, chat_history, chat_file>>
    /\ UNCHANGED <<lifeVars, is_task_running, task_history, task_file,
                   settings_file, closed, queryVars, put_log, teeVars, fmtVars>>

\* on_closing, lines 1242-1259: the three saves, each catching its own
\* failure, the running flag, root.destroy().
OnClosing(chatKind, taskKind, settingsKind) ==
    /\ ~closed
    /\ chat_file' = WriteResult(chat_file, DumpChat(chat_history), chatKind)
    /\ task_file' = WriteResult(task_file, DumpStrings(task_history), taskKind)
    /\ settings_file' = WriteResult(settings_file, DumpSettings(Settings(rules)), settingsKind)
    /\ is_task_running' = FALSE
    /\ closed' = TRUE
    /\ dialog' = "none"
    /\ UNCHANGED <<lifeVars, rules, task_history, chat_history, rules_file,
                   queryVars, put_log, teeVars, fmtVars>>

\* load_settings, lines 1155-1174, with its default
DefaultRules == << <<"Be helpful and accurate">>, <<"Provide clear explanations">>,
                   <<"Ask for clarification when needed">> >>

load_settings(text) ==
    IF text = <<>> THEN Settings(DefaultRules) ELSE LoadSettings(text)

\* The program is started again: __init__, lines 77-94, loads the settings,
\* the chat history, the task history and, with the dependencies imported,
\* the rules.
Startup ==
    /\ closed
    /\ closed' = FALSE
    /\ chat_history' = (IF chat_file = <<>> THEN <<>> ELSE LoadChat(chat_file))
    /\ task_history' = (IF task_file = <<>> THEN <<>> ELSE LoadStrings(task_file))
    /\ rules' = (IF DEPENDENCIES_AVAILABLE
                    THEN load_rules(rules_file)
                    ELSE load_settings(settings_file).rules)
    /\ dialog' = "none"
    /\ UNCHANGED <<lifeVars, is_task_running, chat_file, task_file, rules_file,
                   settings_file, queryVars, put_log, teeVars, fmtVars>>

RULES_HEADER == <<"IMPORTANT: Follow these rules while completing the task:", "\n">>
TASK_PREFIX  == <<"\n", "Now complete this task: ">>

\* Lines 976-977: the numbered rules
RECURSIVE NumberedRules(_, _)
NumberedRules(rs, i) ==
    IF i > Len(rs) THEN <<>>
    ELSE Digits(i) \o <<".", " ">> \o rs[i] \o <<"\n">> \o NumberedRules(rs, i + 1)

EnhancedQueryFromZero(command) ==
    IF rules # <<>> /\ valid_rules # <<>>
       THEN RULES_HEADER \o NumberedRules(<< <<>> >> \o valid_rules, 1) \o TASK_PREFIX \o command
       ELSE command

\* Lines 965-979: enhanced_query for the command given
EnhancedQuery(command) ==
    IF rules # <<>> /\ valid_rules # <<>>
       THEN RULES_HEADER \o NumberedRules(valid_rules, 1) \o TASK_PREFIX \o command
       ELSE command

\* The commands a worker is started with
Commands == { <<"x">>, <<"C", " ", "1", ".", " ", "A">> }

\* execute_agent_task_async builds the string for the adapter, lines 964-979.
EnhanceQuery(command) ==
    /\ ~closed
    /\ DEPENDENCIES_AVAILABLE
    /\ query' = command
    /\ enhanced_query' = EnhancedQuery(command)
    /\ dialog' = "none"
    /\ UNCHANGED <<lifeVars, rules, is_task_running, task_history, chatVars, task_file,
                   rules_file, settings_file, closed, put_log, teeVars, fmtVars>>

DataNext ==
    \/ \E m \in ChatInputs, kind \in WriteKinds : AddMessage(m[1], m[2], m[3], kind)
    \/ \E text \in EntryTexts, kind \in WriteKinds : RecordCommand(text, kind)
    \/ \E entries \in RuleEntries, kind \in WriteKinds, chatKind \in WriteKinds :
           SaveRulesFromSettingsUI(entries, kind, chatKind)
    \/ \E chatKind \in WriteKinds, taskKind \in WriteKinds, settingsKind \in WriteKinds :
           OnClosing(chatKind, taskKind, settingsKind)
    \/ Startup

DataSpec == Init /\ [][DataNext]_vars

QueryNext ==
    \/ \E entries \in RuleEntries, kind \in WriteKinds, chatKind \in WriteKinds :
           SaveRulesFromSettingsUI(entries, kind, chatKind)
    \/ \E command \in Commands : EnhanceQuery(command)

QuerySpec == Init /\ [][QueryNext]_vars

\* ------------------------------------------------------------------ C15
\* piece stands in text at position p
OccursAt(text, p, piece) ==
    /\ p + Len(piece) - 1 <= Len(text)
    /\ SubSeq(text, p, p + Len(piece) - 1) = piece

EndsWith(text, piece) ==
    /\ Len(piece) <= Len(text)
    /\ SubSeq(text, Len(text) - Len(piece) + 1, Len(text)) = piece

\* pieces stand in text from position p on, in their order, none overlapping
\* another
RECURSIVE InOrder(_, _, _)
InOrder(text, pieces, p) ==
    \/ pieces = <<>>
    \/ \E q \in p..Len(text) :
           /\ OccursAt(text, q, Head(pieces))
           /\ InOrder(text, Tail(pieces), q + Len(Head(pieces)))

\* The configured rules that are not blank, each behind its number
C15_Numbered ==
    LET nonBlank == SelectSeq(rules, LAMBDA r : Strip(r) # <<>>)
    IN  [i \in 1..Len(nonBlank) |-> Digits(i) \o <<".", " ">> \o nonBlank[i]]

C15_Injected ==
    IF C15_Numbered = <<>>
       THEN enhanced_query' = query'
       ELSE /\ EndsWith(enhanced_query', query')
            /\ InOrder(SubSeq(enhanced_query', 1, Len(enhanced_query') - Len(query')),
                       C15_Numbered, 1)

\* C15: the string built for the adapter from command C holds the non-blank
\* configured rules as '1. r1', '2. r2', ... in their configured order and
\* ends with C; with no non-blank rule configured it is exactly C.
C15_RuleInjection ==
    [][\A command \in Commands :
           EnhanceQuery(command) => (query' = command /\ C15_Injected)]_vars

\* Two rules are injected before a command that itself reads like a rule line.
C15_Witness ==
    /\ Len(rules) = 2
    /\ query = <<"C", " ", "1", ".", " ", "A">>
    /\ enhanced_query = EnhancedQuery(query)
    /\ enhanced_query # query

\* ------------------------------------------------------------------ C16
\* C16: what __init__ loads from a file equals what was in memory when the
\* file was saved from it: the chat history and the task history entry for
\* entry in their order, the settings, and the rules.
C16_RoundTrip ==
    [][Startup =>
          /\ chat_file = DumpChat(chat_history) => chat_history' = chat_history
          /\ task_file = DumpStrings(task_history) => task_history' = task_history
          /\ settings_file = DumpSettings(Settings(rules))
                => load_settings(settings_file) = Settings(rules)
          /\ rules_file = DumpStrings(rules) => load_rules(rules_file) = rules
          /\ (settings_file = DumpSettings(Settings(rules)) /\ rules_file = DumpStrings(rules))
                => rules' = rules]_vars

\* The program runs again on what an earlier run saved: a chat history with a
\* quotation mark in a message, a task history, and two rules.
C16_Witness ==
    /\ ~closed
    /\ chat_file = DumpChat(chat_history)
    /\ \E i \in 1..Len(chat_history) :
           \E k \in 1..Len(chat_history[i].message) : chat_history[i].message[k] = QUOTE
    /\ task_history # <<>>
    /\ task_file = DumpStrings(task_history)
    /\ Len(rules) = 2
    /\ rules_file = DumpStrings(rules)
    /\ settings_file = DumpSettings(Settings(rules))

\* ------------------------------------------------------------------ C18
IsPrefix(s, t) == Len(s) <= Len(t) /\ SubSeq(t, 1, Len(s)) = s

C18_Persisted == chat_file' # <<>> /\ LoadChat(chat_file') = chat_history'

\* C18: while the program runs, chat_history only grows at its end, and after
\* every add_message whose write of chat_history.json succeeds the file holds
\* the chat history that is in memory.
C18_AppendOnlyAndPersisted ==
    [][/\ ~closed => IsPrefix(chat_history, chat_history')
       /\ (/\ chat_history' # chat_history
           /\ \/ \E m \in ChatInputs : AddMessage(m[1], m[2], m[3], "ok")
              \/ \E text \in EntryTexts : RecordCommand(text, "ok")
              \/ \E entries \in RuleEntries : SaveRulesFromSettingsUI(entries, "ok", "ok"))
          => C18_Persisted]_vars

\* Two entries appended in a first run, the second write having succeeded
C18_Witness ==
    /\ ~closed
    /\ task_file = <<>>
    /\ Len(chat_history) = 2
    /\ chat_file = DumpChat(chat_history)

\* ------------------------------------------------------------------ C19
\* C19: a handler whose write to chat_history.json, task_history.json,
\* agent_settings.json or rules.json fails shows no dialog and no chat message
\* about it, and completes as it would have: the message is appended, the
\* command recorded, the rules taken over, the window closed.
C19_FailedWriteSilent ==
    [][/\ \A m \in ChatInputs :
              AddMessage(m[1], m[2], m[3], "failed")
                 => dialog' = "none" /\ Len(chat_history') = Len(chat_history) + 1
       /\ \A text \in EntryTexts :
              RecordCommand(text, "failed")
                 => /\ dialog' = "none"
                    /\ Len(chat_history') = Len(chat_history) + 1
                    /\ task_history' = Append(task_history, Strip(text))
       /\ \A chatKind \in WriteKinds, taskKind \in WriteKinds, settingsKind \in WriteKinds :
              OnClosing(chatKind, taskKind, settingsKind)
                 => /\ dialog' = "none"
                    /\ closed'
                    /\ UNCHANGED <<chat_history, task_history, rules>>
       /\ \A entries \in RuleEntries, chatKind \in WriteKinds :
              SaveRulesFromSettingsUI(entries, "failed", chatKind)
                 => /\ dialog' = "none"
                    /\ rules' = CleanRules(entries, <<>>)]_vars

\* ------------------------------------------------------------------ C20
\* C20: is_task_running and the current_task slot are written by the worker
\* thread only: no step of the UI thread (a submission, stop_task, the queue
\* poll) changes either.
C20_WorkerIsOnlyWriter ==
    [][(\/ StopTask
        \/ ProcessMessageQueue
        \/ \E text \in EntryTexts : SendCommand(text)
        \/ \E text \in EntryTexts, ok \in BOOLEAN : StartTask(text, ok))
          => UNCHANGED <<is_task_running, current_task>>]_vars

\* ------------------------------------------------------------------ the queue
MaxPuts == 3       \* entries the producers of QueueSpec may put

\* Chat messages of the worker (lines 959, 1009)
QueueInputs == {AgentMsg(MSG_INIT), ErrorMsg(MSG_TASK_ERROR)}

\* message_queue.put(m) by a worker or a tee
QueuePut(m) ==
    /\ Len(put_log) < MaxPuts
    /\ message_queue' = Append(message_queue, m)
    /\ put_log' = Append(put_log, m)
    /\ UNCHANGED <<envVars, is_task_running, current_task, task_thread, task_history,
                   start_button, stop_button, workerVars, histVars, event, chatVars,
                   fileVars, queryVars, teeVars, fmtVars>>

\* Lines 955-956 and 1012-1013: the worker writes the running flag and puts
\* the sentinel.
PutSentinel(running) ==
    /\ Len(put_log) < MaxPuts
    /\ is_task_running' = running
    /\ message_queue' = Append(message_queue, Sentinel)
    /\ put_log' = Append(put_log, Sentinel)
    /\ UNCHANGED <<envVars, current_task, task_thread, task_history,
                   start_button, stop_button, workerVars, histVars, event, chatVars,
                   fileVars, queryVars, teeVars, fmtVars>>

QueueNext ==
    \/ \E m \in QueueInputs : QueuePut(m)
    \/ \E running \in BOOLEAN : PutSentinel(running)
    \/ ProcessMessageQueue
    \/ \E m \in ChatInputs, kind \in WriteKinds : AddMessage(m[1], m[2], m[3], kind)

\* process_message_queue reschedules itself every 100 ms (line 1153).
QueueSpec == Init /\ [][QueueNext]_vars /\ WF_vars(ProcessMessageQueue)

\* ------------------------------------------------------------------ C17
\* The chat entries of the chat messages among the queue entries q
C17_Entries(q) ==
    LET lines == SelectSeq(q, LAMBDA m : m.sender # UPDATE_BUTTONS)
    IN  [i \in 1..Len(lines) |-> Entry(lines[i].sender, <<lines[i].message>>, lines[i].type)]

\* The chat entries that came through the queue: the handlers' own messages
\* left out
C17_Rendered ==
    SelectSeq(chat_history,
              LAMBDA e : \A m \in ChatInputs : e # Entry(m[1], m[2], m[3]))

\* C17: the chat messages put on the queue are rendered once each, in the
\* order they were put, none lost, merged or overtaken (what is rendered,
\* followed by what still waits, is what was put; what waits is rendered in
\* the end); a sentinel sets the buttons from the running flag and adds no
\* chat line.
C17_RenderedOnceInOrder ==
    /\ [](C17_Rendered \o C17_Entries(message_queue) = C17_Entries(put_log))
    /\ [][(/\ message_queue' = <<>>
            /\ \E i \in 1..Len(message_queue) : message_queue[i] = Sentinel)
             => /\ start_button' = (IF is_task_running THEN "disabled" ELSE "normal")
                /\ stop_button' = (IF is_task_running THEN "normal" ELSE "disabled")
                /\ Len(chat_history') - Len(chat_history)
                      = Len(C17_Entries(message_queue))]_vars
    /\ (message_queue # <<>>) ~> (message_queue = <<>>)

\* Two chat messages with a sentinel between them have been put and polled,
\* around a message of a handler.
C17_Witness ==
    /\ message_queue = <<>>
    /\ put_log = <<AgentMsg(MSG_INIT), Sentinel, ErrorMsg(MSG_TASK_ERROR)>>
    /\ Len(chat_history) = 3
    /\ Len(C17_Rendered) = 2
    /\ stop_button = "normal"

\* ------------------------------------------------------------------ the log lines
\* The substrings format_agent_log looks for (lines 815-832)
KW_ITERATION    == <<"I", "t", "e", "r", "a", "t", "i", "o", "n">>
KW_EVALUATE     == <<"E", "v", "a", "l", "u", "a", "t", "e">>
KW_MEMORY       == <<"M", "e", "m", "o", "r", "y">>
KW_THOUGHT      == <<"T", "h", "o", "u", "g", "h", "t">>
KW_ACTION       == <<"A", "c", "t", "i", "o", "n">>
KW_OBSERVATION  == <<"O", "b", "s", "e", "r", "v", "a", "t", "i", "o", "n">>
KW_FINAL_ANSWER == <<"F", "i", "n", "a", "l", " ", "A", "n", "s", "w", "e", "r">>
KW_ERROR        == <<"E", "R", "R", "O", "R">>
KW_EXCEPTION    == <<"E", "X", "C", "E", "P", "T", "I", "O", "N">>
KW_WARNING      == <<"W", "A", "R", "N", "I", "N", "G">>

\* The markers it puts before a line, each one character of the source
MARK_ITERATION   == "(iteration)"
MARK_EVALUATE    == "(evaluate)"
MARK_MEMORY      == "(memory)"
MARK_THOUGHT     == "(thought)"
MARK_ACTION      == "(action)"
MARK_OBSERVATION == "(observation)"
MARK_FINAL       == "(final answer)"
MARK_ERROR       == "(error)"
MARK_WARNING     == "(warning)"

LowerCase == <<"a", "b", "c", "d", "e", "f", "g", "h", "i", "j", "k", "l", "m",
               "n", "o", "p", "q", "r", "s", "t", "u", "v", "w", "x", "y", "z">>
UpperCase == <<"A", "B", "C", "D", "E", "F", "G", "H", "I", "J", "K", "L", "M",
               "N", "O", "P", "Q", "R", "S", "T", "U", "V", "W", "X", "Y", "Z">>

\* str.upper()
Upper(text) ==
    [i \in 1..Len(text) |->
        IF \E k \in 1..Len(LowerCase) : LowerCase[k] = text[i]
           THEN UpperCase[CHOOSE k \in 1..Len(LowerCase) : LowerCase[k] = text[i]]
           ELSE text[i]]

\* piece in text
Contains(text, piece) ==
    \E p \in 1..(Len(text) - Len(piece) + 1) : SubSeq(text, p, p + Len(piece) - 1) = piece

format_agent_log_evaluate_first(text) ==
    LET l == Strip(text) IN
    IF l = <<>> THEN <<>>
    ELSE IF Contains(l, KW_EVALUATE) THEN <<MARK_EVALUATE, " ">> \o l
    ELSE IF Contains(l, KW_ITERATION) THEN <<MARK_ITERATION, " ">> \o l
    ELSE IF Contains(l, KW_MEMORY) THEN <<MARK_MEMORY, " ">> \o l
    ELSE IF Contains(l, KW_THOUGHT) THEN <<MARK_THOUGHT, " ">> \o l
    ELSE IF Contains(l, KW_ACTION) THEN <<MARK_ACTION, " ">> \o l
    ELSE IF Contains(l, KW_OBSERVATION) THEN <<MARK_OBSERVATION, " ">> \o l
    ELSE IF Contains(l, KW_FINAL_ANSWER) THEN <<MARK_FINAL, " ">> \o l
    ELSE IF Contains(Upper(l), KW_ERROR) \/ Contains(Upper(l), KW_EXCEPTION)
            THEN <<MARK_ERROR, " ">> \o l
    ELSE IF Contains(Upper(l), KW_WARNING) THEN <<MARK_WARNING, " ">> \o l
    ELSE l

\* format_agent_log, lines 808-835; <<>> stands for None.
format_agent_log(text) ==
    LET l == Strip(text) IN
    IF l = <<>> THEN <<>>
    ELSE IF Contains(l, KW_ITERATION) THEN <<MARK_ITERATION, " ">> \o l
    ELSE IF Contains(l, KW_EVALUATE) THEN <<MARK_EVALUATE, " ">> \o l
    ELSE IF Contains(l, KW_MEMORY) THEN <<MARK_MEMORY, " ">> \o l
    ELSE IF Contains(l, KW_THOUGHT) THEN <<MARK_THOUGHT, " ">> \o l
    ELSE IF Contains(l, KW_ACTION) THEN <<MARK_ACTION, " ">> \o l
    ELSE IF Contains(l, KW_OBSERVATION) THEN <<MARK_OBSERVATION, " ">> \o l
    ELSE IF Contains(l, KW_FINAL_ANSWER) THEN <<MARK_FINAL, " ">> \o l
    ELSE IF Contains(Upper(l), KW_ERROR) \/ Contains(Upper(l), KW_EXCEPTION)
            THEN <<MARK_ERROR, " ">> \o l
    ELSE IF Contains(Upper(l), KW_WARNING) THEN <<MARK_WARNING, " ">> \o l
    ELSE l

\* Lines of agent output: one or two words, some of them keywords, in
\* either case, inside other words and with blanks around
LogWords == { <<>>, <<" ">>, KW_ITERATION, KW_EVALUATE, KW_MEMORY, KW_THOUGHT, KW_ACTION,
              KW_OBSERVATION, KW_FINAL_ANSWER, <<"E", "r", "r", "o", "r">>,
              <<"e", "x", "c", "e", "p", "t", "i", "o", "n">>,
              <<"W", "a", "r", "n", "i", "n", "g">>,
              <<"i", "t", "e", "r", "a", "t", "i", "o", "n">>,
              <<"R", "e", "a", "c", "t", "i", "o", "n">>, <<"o", "k">> }

LogLines == { a \o <<" ">> \o b : a \in LogWords, b \in LogWords }

\* format_agent_log(line) is called (lines 790, 802).
FormatLine(text) ==
    /\ line' = text
    /\ formatted' = format_agent_log(text)
    /\ UNCHANGED <<lifeVars, rules, is_task_running, task_history, chatVars, fileVars,
                   queryVars, put_log, teeVars>>

FormatSpec == Init /\ [][\E text \in LogLines : FormatLine(text)]_vars

\* ------------------------------------------------------------------ C14
\* The tests in their order, and the marker of each
C14_Markers == <<MARK_ITERATION, MARK_EVALUATE, MARK_MEMORY, MARK_THOUGHT, MARK_ACTION,
                 MARK_OBSERVATION, MARK_FINAL, MARK_ERROR, MARK_WARNING>>

C14_Matches(l, k) ==
    IF k <= 7
       THEN Contains(l, <<KW_ITERATION, KW_EVALUATE, KW_MEMORY, KW_THOUGHT, KW_ACTION,
                          KW_OBSERVATION, KW_FINAL_ANSWER>>[k])
       ELSE IF k = 8 THEN Contains(Upper(l), KW_ERROR) \/ Contains(Upper(l), KW_EXCEPTION)
       ELSE Contains(Upper(l), KW_WARNING)

\* C14: a non-blank line gets exactly one marker, that of the first test it
\* passes in the order Iteration, Evaluate, Memory, Thought, Action,
\* Observation, Final Answer (as written), ERROR or EXCEPTION, WARNING (in
\* any case); the line follows the marker as it was; a line that passes no
\* test is returned unchanged.
C14_FirstMatchMarks ==
    LET l == Strip(line)
        passed == {k \in 1..9 : C14_Matches(l, k)}
    IN  IF l = <<>> THEN formatted = <<>>
        ELSE IF passed = {} THEN formatted = l
        ELSE /\ formatted[1] = C14_Markers[CHOOSE k \in passed : \A j \in passed : k <= j]
             /\ formatted[2] = " "
             /\ SubSeq(formatted, 3, Len(formatted)) = l
             /\ \A i \in 3..Len(formatted) :
                    \A k \in 1..9 : formatted[i] # C14_Markers[k]

\* A line with two keywords, the later test's keyword standing first, has
\* been given the marker of the earlier test.
C14_Witness ==
    /\ line = KW_EVALUATE \o <<" ">> \o KW_ITERATION
    /\ formatted = <<MARK_ITERATION, " ">> \o line

\* ------------------------------------------------------------------ the tee
MaxText == 3       \* characters written to the tees in TeeSpec

\* What is passed to write: print(x) calls write(x) and write("\n")
TeeTexts == { <<"a">>, <<"b", "\n">>, <<"\n">>, <<" ">> }

HasBreak(text) == \E i \in 1..Len(text) : text[i] = "\n"

\* text.split('\n', 1) of a text with a line break
BeforeBreak(text) ==
    SubSeq(text, 1, (CHOOSE i \in 1..Len(text) :
                        text[i] = "\n" /\ \A j \in 1..(i - 1) : text[j] # "\n") - 1)

AfterBreak(text) == SubSeq(text, Len(BeforeBreak(text)) + 2, Len(text))

\* The queue entry for text of stream s, with the text before formatting and
\* the occasion of the put kept beside it
TeeEntry(s, text, at) ==
    [stream |-> s, raw |-> Strip(text), text |-> format_agent_log(Strip(text)), at |-> at]

\* Lines 838-847: the tees are made, the streams redirected, agent.invoke
\* entered.
CaptureBegin ==
    /\ tee_phase = "idle"
    /\ tee_phase' = "invoking"
    /\ Redirect(1)
    /\ UNCHANGED <<tee_buffer, tee_pc, tee_local, tee_written, tee_log>>
    /\ UNCHANGED <<lifeVars, rules, is_task_running, task_history, chatVars, fileVars,
                   queryVars, put_log, fmtVars>>

\* write, lines 780-789, by thread w on the tee of stream s: the right-hand
\* side of self.buffer += text is computed.  The threads are not synchronised,
\* so each read and each write of self.buffer is a step of its own.
TeeWriteLoad(w, s, text) ==
    /\ tee_phase = "invoking"
    /\ tee_pc[w] = "idle"
    /\ w = "ui" => s = "stdout"
    /\ Len(tee_written["stdout"]) + Len(tee_written["stderr"]) + Len(text) <= MaxText
    /\ tee_written' = [tee_written EXCEPT ![s] = @ \o text]
    /\ tee_local' = [tee_local EXCEPT ![w] = [stream |-> s, text |-> tee_buffer[s] \o text,
                                              rest |-> <<>>]]
    /\ tee_pc' = [tee_pc EXCEPT ![w] = "add"]
    /\ UNCHANGED <<sysVars, tee_phase, tee_buffer, tee_log>>
    /\ UNCHANGED <<lifeVars, rules, is_task_running, task_history, chatVars, fileVars,
                   queryVars, put_log, fmtVars>>

\* Line 789: self.buffer is assigned.
TeeWriteStore(w) ==
    /\ tee_pc[w] = "add"
    /\ tee_buffer' = [tee_buffer EXCEPT ![tee_local[w].stream] = tee_local[w].text]
    /\ tee_pc' = [tee_pc EXCEPT ![w] = "test"]
    /\ UNCHANGED <<sysVars, tee_phase, tee_local, tee_written, tee_log>>
    /\ UNCHANGED <<lifeVars, rules, is_task_running, task_history, chatVars, fileVars,
                   queryVars, put_log, fmtVars>>

\* Line 790: while '\n' in self.buffer
TeeWriteTest(w) ==
    /\ tee_pc[w] = "test"
    /\ IF HasBreak(tee_buffer[tee_local[w].stream])
          THEN /\ tee_pc' = [tee_pc EXCEPT ![w] = "split"]
               /\ UNCHANGED tee_local
          ELSE /\ tee_pc' = [tee_pc EXCEPT ![w] = "idle"]
               /\ tee_local' = [tee_local EXCEPT ![w] = NoLocal]
    /\ UNCHANGED <<sysVars, tee_phase, tee_buffer, tee_written, tee_log>>
    /\ UNCHANGED <<lifeVars, rules, is_task_running, task_history, chatVars, fileVars,
                   queryVars, put_log, fmtVars>>

\* Line 791, right-hand side: self.buffer.split('\n', 1).  Without a line
\* break in the buffer by now, the unpacking raises ValueError and write ends.
TeeWriteSplit(w) ==
    LET buffer == tee_buffer[tee_local[w].stream] IN
    /\ tee_pc[w] = "split"
    /\ IF HasBreak(buffer)
          THEN /\ tee_local' = [tee_local EXCEPT ![w].text = BeforeBreak(buffer),
                                                 ![w].rest = AfterBreak(buffer)]
               /\ tee_pc' = [tee_pc EXCEPT ![w] = "store"]
          ELSE /\ tee_local' = [tee_local EXCEPT ![w] = NoLocal]
               /\ tee_pc' = [tee_pc EXCEPT ![w] = "idle"]
    /\ UNCHANGED <<sysVars, tee_phase, tee_buffer, tee_written, tee_log>>
    /\ UNCHANGED <<lifeVars, rules, is_task_running, task_history, chatVars, fileVars,
                   queryVars, put_log, fmtVars>>

\* Lines 791-796: line and self.buffer are assigned, a non-blank line is
\* formatted and put.
TeeWriteForward(w) ==
    LET s == tee_local[w].stream IN
    /\ tee_pc[w] = "store"
    /\ tee_buffer' = [tee_buffer EXCEPT ![s] = tee_local[w].rest]
    /\ tee_log' = IF Strip(tee_local[w].text) # <<>>
                     THEN Append(tee_log, TeeEntry(s, tee_local[w].text, "write"))
                     ELSE tee_log
    /\ tee_pc' = [tee_pc EXCEPT ![w] = "test"]
    /\ UNCHANGED <<sysVars, tee_phase, tee_local, tee_written>>
    /\ UNCHANGED <<lifeVars, rules, is_task_running, task_history, chatVars, fileVars,
                   queryVars, put_log, fmtVars>>

\* flush, lines 798-806: what it puts for stream s, and what it leaves in
\* the buffer (the buffer is reset only when it is not blank)
FlushEntries(s, at) ==
    IF Strip(tee_buffer[s]) # <<>> THEN <<TeeEntry(s, tee_buffer[s], at)>> ELSE <<>>

FlushBuffer(s) == IF Strip(tee_buffer[s]) # <<>> THEN <<>> ELSE tee_buffer[s]

\* The adapter calls flush on stream s during the call (print(..., flush=True),
\* sys.stdout.flush()).
TeeFlush(s) ==
    /\ tee_phase = "invoking"
    /\ tee_pc["adapter"] = "idle"
    /\ tee_log' = tee_log \o FlushEntries(s, "flush")
    /\ tee_buffer' = [tee_buffer EXCEPT ![s] = FlushBuffer(s)]
    /\ UNCHANGED <<sysVars, tee_phase, tee_pc, tee_local, tee_written>>
    /\ UNCHANGED <<lifeVars, rules, is_task_running, task_history, chatVars, fileVars,
                   queryVars, put_log, fmtVars>>

\* agent.invoke returns: lines 850-858, both tees are flushed and the streams
\* restored.
CaptureReturn ==
    /\ tee_phase = "invoking"
    /\ tee_pc["adapter"] = "idle"
    /\ tee_phase' = "returned"
    /\ tee_log' = tee_log \o FlushEntries("stdout", "completion")
                          \o FlushEntries("stderr", "completion")
    /\ tee_buffer' = [s \in Streams |-> FlushBuffer(s)]
    /\ Restore
    /\ UNCHANGED <<tee_pc, tee_local, tee_written>>
    /\ UNCHANGED <<lifeVars, rules, is_task_running, task_history, chatVars, fileVars,
                   queryVars, put_log, fmtVars>>

\* agent.invoke raises: lines 850-851 are skipped, the finally clause (lines
\* 855-858) restores the streams.
CaptureRaise ==
    /\ tee_phase = "invoking"
    /\ tee_pc["adapter"] = "idle"
    /\ tee_phase' = "raised"
    /\ Restore
    /\ UNCHANGED <<tee_buffer, tee_pc, tee_local, tee_written, tee_log>>
    /\ UNCHANGED <<lifeVars, rules, is_task_running, task_history, chatVars, fileVars,
                   queryVars, put_log, fmtVars>>

TeeNext ==
    \/ CaptureBegin
    \/ \E w \in Writers, s \in Streams, text \in TeeTexts : TeeWriteLoad(w, s, text)
    \/ \E w \in Writers : TeeWriteStore(w)
    \/ \E w \in Writers : TeeWriteTest(w)
    \/ \E w \in Writers : TeeWriteSplit(w)
    \/ \E w \in Writers : TeeWriteForward(w)
    \/ \E s \in Streams : TeeFlush(s)
    \/ CaptureReturn
    \/ CaptureRaise

TeeSpec == Init /\ [][TeeNext]_vars

\* ------------------------------------------------------------------ C11
\* The text stream s has had forwarded, in the order of the puts
RECURSIVE ForwardedIn(_, _)
ForwardedIn(log, s) ==
    IF log = <<>> THEN <<>>
    ELSE (IF Head(log).stream = s THEN Head(log).raw ELSE <<>>) \o ForwardedIn(Tail(log), s)

Forwarded(s) == ForwardedIn(tee_log, s)

\* The characters of text that are not white space
Visible(text) == SelectSeq(text, LAMBDA c : c \notin Whitespace)

\* a can be had from b by leaving characters out
RECURSIVE IsSubseq(_, _)
IsSubseq(a, b) ==
    \/ a = <<>>
    \/ /\ b # <<>>
       /\ IF Head(a) = Head(b) THEN IsSubseq(Tail(a), Tail(b)) ELSE IsSubseq(a, Tail(b))

\* C11: what has been put for a stream is text written to that stream, each
\* piece of it put at most once and in the order written.
C11_AtMostOnceInOrder ==
    \A s \in Streams : IsSubseq(Visible(Forwarded(s)), Visible(tee_written[s]))

\* ------------------------------------------------------------------ C12
\* C12: once the call is over, whether agent.invoke returned or raised, no
\* non-blank text is left in a tee buffer: the final partial line has been
\* forwarded, and only once.
C12_FinalPartialLineForwarded ==
    (tee_phase \in {"returned", "raised"} /\ \A w \in Writers : tee_pc[w] = "idle")
        => /\ \A s \in Streams : Strip(tee_buffer[s]) = <<>>
           /\ \A s \in Streams :
                  Cardinality({i \in 1..Len(tee_log) :
                                  tee_log[i].stream = s /\ tee_log[i].at = "completion"}) <= 1

\* ------------------------------------------------------------------ C13
\* The part of text that its last line break ends
RECURSIVE UpToLastBreak(_)
UpToLastBreak(text) ==
    IF text = <<>> \/ text[Len(text)] = "\n" THEN text
    ELSE UpToLastBreak(SubSeq(text, 1, Len(text) - 1))

\* C13: while the call is in progress, nothing written after the last line
\* break of a stream has been forwarded.
C13_PartialLineHeld ==
    tee_phase = "invoking"
        => \A s \in Streams :
               Len(Visible(Forwarded(s))) <= Len(Visible(UpToLastBreak(tee_written[s])))

\* ------------------------------------------------------------------ claims on overlapping tasks
\* Task u was launched before task t: workers are numbered as they are started.
Earlier(u, t) == u < t

\* The worker of task u is in its completion: the finally clauses of lines
\* 1015-1017 and 944-949.
Completing(u) == pc[u] \in {"finally", "task_end", "confirm"}

\* C21: a completion step of the worker of an earlier task that stop_task
\* stopped during its adapter call, taken while the adapter call of a later
\* task (one started after that stop) is in flight, leaves the running flag as
\* it was and leaves current_task referring to the later task.
C21_EarlierTaskLeavesRunState ==
    [][\A u, t \in Tasks :
          (/\ Earlier(u, t)
           /\ "in_flight" \in stops[u]
           /\ stops[t] = {}
           /\ InFlight(t)
           /\ Completing(u)
           /\ pc'[u] # pc[u])
              => /\ is_task_running' = is_task_running
                 /\ current_task = t => current_task' = t]_vars

\* The adapter call of task t ends in this step: agent.invoke returns or
\* raises, or line 847 raises with no agent.
CallEnds(t) ==
    /\ call[t] \in {"queued", "running"}
    /\ call'[t] \in {"returned", "raised"}

C22_RestoredAfterCall ==
    \A t \in Tasks :
        CallEnds(t) => (sys_stdout' = Original /\ sys_stderr' = Original)

C22_OneCallOwnsStreams ==
    \A t \in Tasks :
        {u \in Tasks : InFlight(u)} = {t}
            => (sys_stdout = Tee(t) /\ sys_stderr = Tee(t))

\* C22: the step that ends an adapter call, by return or by exception, leaves
\* sys.stdout and sys.stderr at the original streams; and in every state with
\* exactly one adapter call in flight both streams are that call's tee.
C22_StreamsRedirectedAndRestored ==
    /\ [][C22_RestoredAfterCall]_vars
    /\ []C22_OneCallOwnsStreams

\* C23: a task has the 'Task stopped successfully.' confirmation among its
\* entries only if stop_task acted during its lifetime.
C23_StoppedOnlyAfterStop ==
    \A t \in Tasks :
        Count(t, MSG_STOPPED) > 0 => stops[t] # {}

\* ------------------------------------------------------------------ order of a task's entries
\* Where an entry stands in the order of lines 956-1014 and 941-943; 0 for the
\* entries the order does not place (the sentinels, the final result and the
\* stop confirmation).
C24_Stage(m) ==
    IF m = AgentMsg(MSG_INIT) THEN 1
    ELSE IF m = AgentMsg(MSG_OBJECTIVE) THEN 2
    ELSE IF m = AgentMsg(MSG_RULES) THEN 3
    ELSE IF m = AgentMsg(MSG_ANALYZING) THEN 4
    ELSE IF m = AgentMsg(MSG_EXECUTING) THEN 5
    ELSE IF m.message \in {MSG_COMPLETED, MSG_EXEC_ERROR, MSG_CANCELLED, MSG_TASK_ERROR} THEN 6
    ELSE 0

C24_Sentinels(t) ==
    Cardinality({i \in 1..Len(enqueued[t]) : enqueued[t][i] = Sentinel})

\* The entries of task t stand in the order of their stages, behind an opening
\* sentinel; a notice occurs once.
C24_InOrder(t) ==
    LET e == enqueued[t] IN
    /\ e # <<>> => e[1] = Sentinel
    /\ \A i, j \in 1..Len(e) :
          (i < j /\ C24_Stage(e[i]) > 0 /\ C24_Stage(e[j]) > 0)
              => /\ C24_Stage(e[i]) <= C24_Stage(e[j])
                 /\ C24_Stage(e[i]) = C24_Stage(e[j]) => C24_Stage(e[i]) = 6

C24_TwoSentinels(t) ==
    /\ C24_Sentinels(t) <= 2
    /\ pc[t] = "finished" => C24_Sentinels(t) = 2

C24_EntriesInOrder ==
    \A t \in Tasks : C24_InOrder(t) /\ C24_TwoSentinels(t)

\* The step that puts the second sentinel is taken by a worker that has passed
\* line 1016.
C24_ClosingAfterReset ==
    \A t \in Tasks :
        (C24_Sentinels(t) = 1 /\ C24_Sentinels(t)' = 2) => pc[t] = "task_end"

\* C24: the entries of every task are in the order opening sentinel, progress
\* notices (initializing, objective, rules notice if any, analyzing,
\* executing), outcome; the closing sentinel is put after the running flag was
\* set to false; a task puts two sentinels, no more.  The lines the tee
\* forwards are put while the adapter call executes, which is after the
\* executing notice (SubmitCall) and before the worker's next put (Wakeup).
C24_FixedOrder ==
    /\ []C24_EntriesInOrder
    /\ [][C24_ClosingAfterReset]_vars

\* ------------------------------------------------------------------ stop_task with its chat line
MSG_STOPPING == <<"Stopping task... Please wait...">>

\* Lines 1051-1059, kind being how the write of chat_history.json ends.
StopActs(kind) ==
    /\ add_message("System", MSG_STOPPING, "system", kind)
    /\ IF current_task # None /\ ~Done(current_task)
          THEN /\ TaskCancel(current_task)
               /\ cancels' = [cancels EXCEPT ![current_task] = @ \cup
                      {IF BeforeCall(current_task) THEN "before_call" ELSE "later"}]
          ELSE UNCHANGED <<fut, must_cancel, cancels>>
    /\ stops' = [t \in Tasks |->
           IF Alive(t)
              THEN stops[t] \cup {IF InFlight(t) THEN "in_flight" ELSE "other"}
              ELSE stops[t]]
    /\ is_task_running' = FALSE
    /\ update_button_states(FALSE)

\* stop_task without the test of line 1050.
stop_task_unguarded(kind) == StopActs(kind)

\* stop_task, lines 1048-1059.
stop_task(kind) ==
    IF is_task_running /\ task_thread # None
       THEN StopActs(kind)
       ELSE UNCHANGED <<chatVars, fut, must_cancel, cancels, stops, is_task_running,
                        start_button, stop_button>>

\* The Stop button (line 203) with the chat line of line 1051, the call
\* recorded in event.
StopTaskRecorded(kind) ==
    /\ stop_button = "normal"
    /\ Len(chat_history) < MaxChat
    /\ stop_task(kind)
    /\ event' = <<"stop">>
    /\ UNCHANGED auxVars
    /\ UNCHANGED <<envVars, current_task, task_thread, message_queue, task_history,
                   pc, task_state, call, exc, content, enqueued, invoked>>

StopNext ==
    \/ \E text \in EntryTexts : SendCommand(text)
    \/ \E text \in EntryTexts, ok \in BOOLEAN : StartTask(text, ok)
    \/ \E kind \in WriteKinds : StopTaskRecorded(kind)
    \/ ProcessMessageQueue
    \/ \E key \in ApiKeyInputs, saved \in BOOLEAN, ok \in BOOLEAN : SaveApiKey(key, saved, ok)
    \/ \E t \in Tasks : CreateTask(t)
    \/ \E t \in Tasks : BeginTask(t)
    \/ \E t \in Tasks : SubmitCall(t)
    \/ \E t \in Tasks : AdapterStart(t)
    \/ \E t \in Tasks, outcome \in {"returned", "raised"}, hasContent \in BOOLEAN :
           AdapterFinish(t, outcome, hasContent)
    \/ \E t \in Tasks : Wakeup(t)
    \/ \E t \in Tasks : ClearRunning(t)
    \/ \E t \in Tasks : EndTask(t)
    \/ \E t \in Tasks : ConfirmStopped(t)

StopSpec == InitNoRules /\ [][StopNext]_vars

\* C25: a call of stop_task with the running flag false or no worker thread
\* ever started appends nothing to the chat, writes no chat file, calls
\* cancel() on no task, and leaves the running flag, the current_task slot and
\* both buttons as they were.
C25_StopWhenIdleIsNoOp ==
    [][(event' = <<"stop">> /\ ~(is_task_running /\ task_thread # None))
          => /\ chat_history' = chat_history
             /\ chat_file' = chat_file
             /\ fut' = fut
             /\ must_cancel' = must_cancel
             /\ cancels' = cancels
             /\ is_task_running' = is_task_running
             /\ current_task' = current_task
             /\ start_button' = start_button
             /\ stop_button' = stop_button]_vars

\* stop_task was called with the flag false and a worker alive, and it left no
\* chat line and the Stop button as it was.
C25_Witness ==
    /\ event = <<"stop">>
    /\ ~is_task_running
    /\ chat_history = <<>>
    /\ stop_button = "normal"
    /\ \E t \in Tasks : Alive(t)

\* ------------------------------------------------------------------ scope of a cancellation
\* The worker of task t makes its Task (line 938).
C26_Created(t) == pc[t] = "thread_started" /\ pc'[t] = "task_created"

\* A new Task has no cancellation pending.
C26_StartsClean ==
    \A t \in Tasks :
        C26_Created(t) => (task_state'[t] = "PENDING" /\ ~must_cancel'[t] /\ fut'[t] # "CANCELLED")

\* stop_task changes the cancellation state of the current task only.
C26_OnlyCurrent ==
    StopTask => \A t \in Tasks \ {current_task} :
                    /\ must_cancel'[t] = must_cancel[t]
                    /\ fut'[t] = fut[t]
                    /\ cancels'[t] = cancels[t]

\* A task reports the cancellation only if stop_task called cancel() on it,
\* which is during its own run.
C26_ReportedOnlyIfStopped ==
    \A t \in Tasks :
        Count(t, MSG_CANCELLED) > 0 => (cancels[t] # {} /\ stops[t] # {})

\* C26: stop_task requests the cancellation of the task in the current_task
\* slot and of no other; a task launched afterwards starts with no
\* cancellation pending, and reports 'Task was cancelled by user.' only if
\* stop_task was called again while it was alive.
C26_CancellationScoped ==
    /\ []C26_ReportedOnlyIfStopped
    /\ [][C26_StartsClean /\ C26_OnlyCurrent]_vars

\* A task was stopped during its call and reported cancelled; a task launched
\* after that stop ran to completion without a cancellation.
C26_Witness ==
    \E u, t \in Tasks :
        /\ Earlier(u, t)
        /\ "in_flight" \in stops[u]
        /\ Count(u, MSG_CANCELLED) = 1
        /\ stops[t] = {}
        /\ pc[t] = "finished"
        /\ Count(t, MSG_COMPLETED) = 1
        /\ Count(t, MSG_CANCELLED) = 0
====
